---------------------------- MODULE Spec2Model ----------------------------
(***************************************************************************)
(* A model of doc, the Go documentation printer (robpike.io/cmd/doc).      *)
(*                                                                         *)
(* Strings are sequences of one-character strings.  The go/ast tree of a   *)
(* file is a sequence of declarations, the output streams are sequences    *)
(* of records, and every loop of the program over a Go map picks its next  *)
(* key nondeterministically, as the Go runtime does.                       *)
(***************************************************************************)
EXTENDS Naturals, Integers, Sequences, FiniteSets, TLC

(***************************************************************************)
(* Characters and strings (package strings, unicode, go/ast).              *)
(***************************************************************************)
UpperChars == <<"A","B","C","D","E","F","G","H","I","J","K","L","M",
                "N","O","P","Q","R","S","T","U","V","W","X","Y","Z">>
LowerChars == <<"a","b","c","d","e","f","g","h","i","j","k","l","m",
                "n","o","p","q","r","s","t","u","v","w","x","y","z">>

IsUpper(c) == \E i \in DOMAIN UpperChars : UpperChars[i] = c

ToLowerChar(c) ==
    IF IsUpper(c)
    THEN LowerChars[CHOOSE i \in DOMAIN UpperChars : UpperChars[i] = c]
    ELSE c

\* strings.ToLower
ToLower(s) == [i \in DOMAIN s |-> ToLowerChar(s[i])]

\* The code point of a character, for the byte-wise order of strings.
CharOrd(c) ==
    IF IsUpper(c)
    THEN 64 + (CHOOSE i \in DOMAIN UpperChars : UpperChars[i] = c)
    ELSE IF \E i \in DOMAIN LowerChars : LowerChars[i] = c
    THEN 96 + (CHOOSE i \in DOMAIN LowerChars : LowerChars[i] = c)
    ELSE 0

RECURSIVE StrLess(_, _)
StrLess(a, b) ==
    IF b = <<>> THEN FALSE
    ELSE IF a = <<>> THEN TRUE
    ELSE IF CharOrd(Head(a)) # CharOrd(Head(b))
    THEN CharOrd(Head(a)) < CharOrd(Head(b))
    ELSE StrLess(Tail(a), Tail(b))

\* strings.Contains(s, c) for a one-character c
Contains(s, c) == \E i \in DOMAIN s : s[i] = c

\* strings.IndexRune
IndexRune(s, c) == CHOOSE i \in DOMAIN s : s[i] = c /\ \A j \in 1..(i-1) : s[j] # c

\* ast.IsExported: the first rune is an upper-case letter.
IsExported(nm) == nm # <<>> /\ IsUpper(nm[1])

(***************************************************************************)
(* Package regexp, for the syntax the model's alphabet can spell:          *)
(* literals, . ^ $, the repetitions ? * + (and their lazy forms), |,       *)
(* groups, and the flag groups (?i:...) (?:...) (?i) (?).                  *)
(***************************************************************************)
MetaChars == {"\\", ".", "+", "*", "?", "(", ")", "|", "[", "]", "{", "}", "^", "$"}

\* regexp.QuoteMeta
RECURSIVE QuoteMeta(_)
QuoteMeta(s) ==
    IF s = <<>> THEN <<>>
    ELSE (IF Head(s) \in MetaChars THEN <<"\\", Head(s)>> ELSE <<Head(s)>>)
         \o QuoteMeta(Tail(s))

RepChars == {"?", "*", "+"}

NoRegexp == [op |-> "nil"]
ParseError == [ok |-> FALSE, re |-> NoRegexp, next |-> 0]

MkCat(cat) == IF Len(cat) = 1 THEN cat[1] ELSE [op |-> "cat", subs |-> cat]
MkAlt(alts) == IF Len(alts) = 1 THEN alts[1] ELSE [op |-> "alt", subs |-> alts]

At(s, i) == IF i \in DOMAIN s THEN s[i] ELSE ""

(***************************************************************************)
(* regexp/syntax.Parse with the Perl flags: parses s from position i up to *)
(* the end of the current group.  fold is the FoldCase flag in force, cat  *)
(* the concatenation being built, alts the alternatives already closed by  *)
(* a |, and lastRep whether the previous token was a repetition.           *)
(***************************************************************************)
RECURSIVE ParseGroup(_, _, _, _, _, _)
ParseGroup(s, i, fold, cat, alts, lastRep) ==
    LET c == At(s, i) IN
    IF i > Len(s) \/ c = ")"
    THEN [ok |-> TRUE, re |-> MkAlt(Append(alts, MkCat(cat))), next |-> i]
    ELSE IF c = "|"
    THEN ParseGroup(s, i + 1, fold, <<>>, Append(alts, MkCat(cat)), FALSE)
    ELSE IF c \in RepChars
    THEN IF cat = <<>> \/ lastRep
         THEN ParseError  \* missing argument to / invalid nested repetition operator
         ELSE LET n    == Len(cat)
                  rep  == [op |-> "rep", kind |-> c, sub |-> cat[n]]
                  lazy == At(s, i + 1) = "?"
              IN ParseGroup(s, IF lazy THEN i + 2 ELSE i + 1, fold,
                            [cat EXCEPT ![n] = rep], alts, TRUE)
    ELSE IF c = "("
    THEN IF At(s, i + 1) = "?"
         THEN \* parsePerlFlags
              LET isI   == At(s, i + 2) = "i"
                  endAt == IF isI THEN i + 3 ELSE i + 2
                  endCh == At(s, endAt)
                  fl    == fold \/ isI
              IN IF endCh = ")"
                 THEN ParseGroup(s, endAt + 1, fl, cat, alts, FALSE)
                 ELSE IF endCh = ":"
                 THEN LET sub == ParseGroup(s, endAt + 1, fl, <<>>, <<>>, FALSE) IN
                      IF sub.ok /\ At(s, sub.next) = ")"
                      THEN ParseGroup(s, sub.next + 1, fold, Append(cat, sub.re), alts, FALSE)
                      ELSE ParseError  \* missing closing )
                 ELSE ParseError       \* invalid or unsupported Perl syntax
         ELSE LET sub == ParseGroup(s, i + 1, fold, <<>>, <<>>, FALSE) IN
              IF sub.ok /\ At(s, sub.next) = ")"
              THEN ParseGroup(s, sub.next + 1, fold, Append(cat, sub.re), alts, FALSE)
              ELSE ParseError          \* missing closing )
    ELSE LET atom == IF c = "." THEN [op |-> "any"]
                     ELSE IF c = "^" THEN [op |-> "bol"]
                     ELSE IF c = "$" THEN [op |-> "eol"]
                     ELSE [op |-> "lit", ch |-> c, fold |-> fold]
         IN ParseGroup(s, i + 1, fold, Append(cat, atom), alts, FALSE)

\* regexp.Compile: an unexpected ) at the top level is an error too.
Compile(src) ==
    LET r == ParseGroup(src, 1, FALSE, <<>>, <<>>, FALSE) IN
    IF r.ok /\ r.next = Len(src) + 1 THEN [ok |-> TRUE, re |-> r.re]
    ELSE [ok |-> FALSE, re |-> NoRegexp]

(***************************************************************************)
(* Ends(re, s, i): the positions at which a match of re that starts at     *)
(* position i of s can end.                                                *)
(***************************************************************************)
RECURSIVE Ends(_, _, _)
RECURSIVE CatEnds(_, _, _, _)
RECURSIVE Closure(_, _, _)

Ends(re, s, i) ==
    CASE re.op = "lit" ->
            IF i \in DOMAIN s
               /\ (s[i] = re.ch \/ (re.fold /\ ToLowerChar(s[i]) = ToLowerChar(re.ch)))
            THEN {i + 1} ELSE {}
      [] re.op = "any" -> IF i \in DOMAIN s THEN {i + 1} ELSE {}
      [] re.op = "bol" -> IF i = 1 THEN {i} ELSE {}
      [] re.op = "eol" -> IF i = Len(s) + 1 THEN {i} ELSE {}
      [] re.op = "cat" -> CatEnds(re.subs, 1, s, {i})
      [] re.op = "alt" -> UNION {Ends(re.subs[k], s, i) : k \in DOMAIN re.subs}
      [] re.op = "rep" ->
            IF re.kind = "?" THEN {i} \cup Ends(re.sub, s, i)
            ELSE IF re.kind = "*" THEN Closure(re.sub, s, {i})
            ELSE Closure(re.sub, s, Ends(re.sub, s, i))
      [] OTHER -> {}

CatEnds(subs, k, s, from) ==
    IF k > Len(subs) THEN from
    ELSE CatEnds(subs, k + 1, s, UNION {Ends(subs[k], s, j) : j \in from})

Closure(sub, s, from) ==
    LET more == from \cup UNION {Ends(sub, s, j) : j \in from} IN
    IF more = from THEN from ELSE Closure(sub, s, more)

\* (*Regexp).MatchString: an unanchored search.
MatchString(re, s) == \E i \in 1..(Len(s) + 1) : Ends(re, s, i) # {}


(***************************************************************************)
(* The environment: GOROOT, GOPATH and the source trees below them.        *)
(* A directory holds packages (parser.ParseDir), a package holds files, a  *)
(* file holds its package clause, its package doc comment (if any) and its *)
(* declarations.  An identifier's position is <<file name, line>>.         *)
(***************************************************************************)
slash == "/"
\* filepath.Join of a clean directory and one element
Join(dir, elem) == dir \o <<slash>> \o elem

GOROOT == <<"/","g">>
GOPATH == <<"/","w">>
sSrc == <<"s","r","c">>
sPkg == <<"p","k","g">>
sCmd == <<"c","m","d">>

goRootSrcPkg == Join(Join(GOROOT, sSrc), sPkg)
goRootSrcCmd == Join(Join(GOROOT, sSrc), sCmd)
goPaths == <<GOPATH>>

\* Names of the source trees.
nT == <<"T">>
nPrint == <<"P","r","i","n","t">>
nFprint == <<"F","p","r","i","n","t">>
nFprintf == <<"F","p","r","i","n","t","f">>
nSprint == <<"S","p","r","i","n","t">>
nEprint == <<"E","p","r","i","n","t">>
nFmt == <<"F","m","t">>
nA == <<"A">>
nB == <<"B">>
nC == <<"C">>
nD == <<"d">>
nE == <<"E">>
nK == <<"K">>
nM == <<"M">>
nU == <<"u">>
nW == <<"W">>
nTlow == <<"t">>
nVprint == <<"V","p","r","i","n","t">>

NoRecv == [typ |-> <<>>, ptr |-> FALSE]

\* body: the declarations (ast.DeclStmt) among the statements of the Body
Func(nm, ln) ==
    [node |-> "FuncDecl", name |-> nm, line |-> ln, recv |-> NoRecv, body |-> <<>>]
Method(typ, ptr, nm, ln) ==
    [node |-> "FuncDecl", name |-> nm, line |-> ln, recv |-> [typ |-> typ, ptr |-> ptr],
     body |-> <<>>]
WithBody(fn, stmts) == [fn EXCEPT !.body = stmts]
Ident(nm, ln) == [name |-> nm, line |-> ln]
ValueSpec(idents) == [spec |-> "ValueSpec", names |-> idents]
\* shape: the TypeSpec's Type (interface, struct, other); imethods: the methods
\* an interface type lists; resolved: whether the type checker gives the
\* identifier an object with a type.
TypeSpec(nm, ln, shape, imethods, resolved) ==
    [spec |-> "TypeSpec", name |-> nm, line |-> ln, shape |-> shape,
     imethods |-> imethods, resolved |-> resolved]
ImportSpec == [spec |-> "ImportSpec"]
GenDecl(tok, lparen, ln, specs) ==
    [node |-> "GenDecl", tok |-> tok, lparen |-> lparen, line |-> ln, specs |-> specs]

SrcFile(base, pkgName, doc, decls) ==
    [base |-> base, pkgName |-> pkgName, doc |-> doc, decls |-> decls]
Package(nm, fs) == [name |-> nm, files |-> fs]
Dir(path, pkgs) == [path |-> path, pkgs |-> pkgs]


fA1 == SrcFile(<<"a","1",".","g","o">>, <<"a">>, FALSE,
          << GenDecl("type", FALSE, 3, <<TypeSpec(nT, 3, "struct", <<>>, TRUE)>>),
             Method(nT, FALSE, nC, 5),
             Method(nT, FALSE, nD, 7) >>)
fA2 == SrcFile(<<"a","2",".","g","o">>, <<"a">>, TRUE,
          << GenDecl("import", FALSE, 3, <<ImportSpec>>),
             Method(nT, FALSE, nA, 5),
             Method(nT, FALSE, nB, 7) >>)
fDoc == SrcFile(<<"d","o","c",".","g","o">>, <<"f","m","t">>, TRUE,
          << GenDecl("const", TRUE, 3, <<ValueSpec(<<Ident(nSprint, 4)>>),
                                         ValueSpec(<<Ident(nEprint, 5)>>)>>),
             GenDecl("var", FALSE, 7, <<ValueSpec(<<Ident(nW, 7), Ident(nVprint, 7)>>)>>) >>)
fPrint == SrcFile(<<"p","r","i","n","t",".","g","o">>, <<"f","m","t">>, TRUE,
          << GenDecl("import", TRUE, 3, <<ImportSpec, ImportSpec>>),
             Func(nPrint, 6),
             Func(nFprint, 8),
             Func(nFprintf, 10),
             GenDecl("type", FALSE, 12, <<TypeSpec(nFmt, 12, "struct", <<>>, TRUE)>>),
             Method(nFmt, TRUE, nPrint, 14) >>)
fB == SrcFile(<<"b",".","g","o">>, <<"b">>, FALSE,
          << GenDecl("type", TRUE, 3, <<TypeSpec(nT, 4, "interface", <<Ident(nM, 5)>>, TRUE),
                                        TypeSpec(nW, 7, "other", <<>>, TRUE)>>),
             Func(nTlow, 9) >>)
fBTest == SrcFile(<<"b","_","t","e","s","t",".","g","o">>, <<"b","_","t","e","s","t">>, FALSE,
          << GenDecl("type", FALSE, 3, <<TypeSpec(nT, 3, "other", <<>>, FALSE)>>) >>)
fC == SrcFile(<<"c",".","g","o">>, <<"c">>, TRUE,
          << GenDecl("type", FALSE, 3, <<TypeSpec(nT, 3, "struct", <<>>, TRUE)>>),
             Method(nT, TRUE, nK, 5),
             Method(nT, TRUE, nE, 7) >>)
fQ == SrcFile(<<"q",".","g","o">>, <<"q">>, FALSE,
          << GenDecl("type", FALSE, 3, <<TypeSpec(nT, 3, "struct", <<>>, TRUE)>>),
             Method(nT, FALSE, nU, 5),
             Method(nT, TRUE, nM, 7) >>)
\* x.go: the body of the method M of T declares a constant
fX == SrcFile(<<"x",".","g","o">>, <<"x">>, FALSE,
          << GenDecl("type", FALSE, 3, <<TypeSpec(nT, 3, "struct", <<>>, TRUE)>>),
             WithBody(Method(nT, FALSE, nM, 5),
                      << GenDecl("const", FALSE, 6, <<ValueSpec(<<Ident(nK, 6)>>)>>) >>) >>)
\* m.go lies in GOROOT/src/pkg itself; its type group has parentheses and one entry
fM == SrcFile(<<"m",".","g","o">>, <<"m">>, FALSE,
          << GenDecl("type", TRUE, 3, <<TypeSpec(nT, 4, "struct", <<>>, TRUE)>>) >>)

GoRootSrc == Join(GOROOT, sSrc)
GoPathSrc == Join(GOPATH, sSrc)

\* The directories below GOROOT/src and GOPATH/src, in the lexical order in
\* which filepath.Walk visits them.
RootTree == << Dir(GoRootSrc, {}),
               Dir(goRootSrcPkg, {Package(<<"m">>, {fM})}),
               Dir(Join(goRootSrcPkg, <<"a">>), {Package(<<"a">>, {fA1, fA2})}),
               Dir(Join(goRootSrcPkg, <<"f","m","t">>), {Package(<<"f","m","t">>, {fDoc, fPrint})}) >>
PathTree == << Dir(GoPathSrc, {}),
               Dir(Join(GoPathSrc, <<".","h">>), {}),
               Dir(Join(GoPathSrc, <<"b">>), {Package(<<"b">>, {fB}), Package(<<"b","_","t","e","s","t">>, {fBTest})}),
               Dir(Join(GoPathSrc, <<"c">>), {Package(<<"c">>, {fC})}),
               Dir(Join(GoPathSrc, <<"q">>), {Package(<<"q">>, {fQ})}),
               Dir(Join(GoPathSrc, <<"x">>), {Package(<<"x">>, {fX})}) >>

AllDirs == {RootTree[i] : i \in DOMAIN RootTree} \cup {PathTree[i] : i \in DOMAIN PathTree}

DirAt(path) == CHOOSE d \in AllDirs : d.path = path
PackageAt(path, pkgName) == CHOOSE p \in DirAt(path).pkgs : p.name = pkgName
\* pkg.Files: the map from file name (directory joined with base name) to file
FileNames(path, pkgName) == {Join(path, f.base) : f \in PackageAt(path, pkgName).files}
AstFile(path, pkgName, fileName) ==
    CHOOSE f \in PackageAt(path, pkgName).files : Join(path, f.base) = fileName


(***************************************************************************)
(* The state of the program.                                               *)
(***************************************************************************)
VARIABLES
    given,      \* the flags as the command line sets them (never changed)
    args,       \* flag.Args(): the positional arguments
    flags,      \* the flag variables (*constantFlag, ..., *regexpFlag)
    pc,         \* where the program is
    pkg, name,  \* main's pkg and name
    exitCode,   \* the exit status, -1 while running
    stderr,     \* what was written to os.Stderr
    stdout,     \* what was written to os.Stdout
    located,    \* whether paths(pkg) has walked the source trees
    dirsLeft,   \* the directories main has still to look in
    parsed,     \* the directories parser.ParseDir has parsed
    curDir,     \* lookInDirectory's directory
    pkgsLeft,   \* the packages of pkgs lookInDirectory has still to range over
    curPkg,     \* doPackage's pkg
    filesLeft,  \* the files of pkg.Files doPackage's first loop has still to range over
    files,      \* doPackage's files
    found,      \* doPackage's found
    fileIdx,    \* the index of doPackage's second loop
    objs,       \* doPackage's objects: the identifiers the type checker resolved
    niled,      \* the FuncDecls whose Body was set to nil
    msLog,      \* history: the calls of File.methodSet
    walks,      \* history: the number of ast.Walk calls of doPackage
    cand,       \* the candidate name handed to File.match
    matched,    \* the result of File.match
    run,        \* which run of the program this is
    prevOut     \* the standard output of the previous run

vars == <<given, args, flags, pc, pkg, name, exitCode, stderr, stdout, located,
          dirsLeft, parsed, curDir, pkgsLeft, curPkg, filesLeft, files, found,
          fileIdx, objs, niled, msLog, walks, cand, matched, run, prevOut>>

KindFlags == {"constantFlag", "functionFlag", "interfaceFlag", "methodFlag",
              "packageFlag", "structFlag", "typeFlag", "variableFlag"}
OutputFlags == {"docFlag", "srcFlag", "urlFlag"}
AllFlags == KindFlags \cup OutputFlags \cup {"regexpFlag"}

\* The flag variables with exactly the flags of set on.
FlagsOf(set) == [f \in AllFlags |-> f \in set]
\* The flags of a group that are on.
On(fl, group) == {f \in group : fl[f]}

(***************************************************************************)
(* main                                                                    *)
(***************************************************************************)
\* The default kinds with package among them
DefaultKindsWithPackage(fl) ==
    IF ~(fl.constantFlag \/ fl.functionFlag \/ fl.interfaceFlag \/ fl.methodFlag
         \/ fl.packageFlag \/ fl.structFlag \/ fl.typeFlag \/ fl.variableFlag)
    THEN [fl EXCEPT !.constantFlag = TRUE, !.functionFlag = TRUE, !.methodFlag = TRUE,
                    !.packageFlag = TRUE, !.typeFlag = TRUE, !.variableFlag = TRUE]
    ELSE fl

\* main: if no kind flag is set, the default kinds are set.
DefaultKinds(fl) ==
    IF ~(fl.constantFlag \/ fl.functionFlag \/ fl.interfaceFlag \/ fl.methodFlag
         \/ fl.packageFlag \/ fl.structFlag \/ fl.typeFlag \/ fl.variableFlag)
    THEN [fl EXCEPT !.constantFlag = TRUE, !.functionFlag = TRUE, !.methodFlag = TRUE,
                    !.typeFlag = TRUE, !.variableFlag = TRUE]
    ELSE fl

\* main: if no output flag is set, all are set.
DefaultOutputs(fl) ==
    IF ~(fl.docFlag \/ fl.srcFlag \/ fl.urlFlag)
    THEN [fl EXCEPT !.docFlag = TRUE, !.srcFlag = TRUE, !.urlFlag = TRUE]
    ELSE fl

\* split: the argument around its first dot.
split(arg) ==
    LET dot == IndexRune(arg, ".") IN
    [pkg |-> SubSeq(arg, 1, dot - 1), name |-> SubSeq(arg, dot + 1, Len(arg))]

\* main's switch without the test of *packageFlag in case 2
ArgSwitchNoPackageTest(fl, as) ==
    IF Len(as) = 1
    THEN IF fl.packageFlag THEN [usage |-> FALSE, pkg |-> as[1], name |-> <<>>]
         ELSE IF fl.regexpFlag THEN [usage |-> FALSE, pkg |-> <<>>, name |-> as[1]]
         ELSE IF Contains(as[1], ".")
         THEN [usage |-> FALSE, pkg |-> split(as[1]).pkg, name |-> split(as[1]).name]
         ELSE [usage |-> FALSE, pkg |-> <<>>, name |-> as[1]]
    ELSE IF Len(as) = 2
    THEN [usage |-> FALSE, pkg |-> as[1], name |-> as[2]]
    ELSE [usage |-> TRUE, pkg |-> <<>>, name |-> <<>>]

\* main's switch with the test of the dot before the test of *regexpFlag
ArgSwitchDotFirst(fl, as) ==
    IF Len(as) = 1
    THEN IF fl.packageFlag THEN [usage |-> FALSE, pkg |-> as[1], name |-> <<>>]
         ELSE IF Contains(as[1], ".")
         THEN [usage |-> FALSE, pkg |-> split(as[1]).pkg, name |-> split(as[1]).name]
         ELSE [usage |-> FALSE, pkg |-> <<>>, name |-> as[1]]
    ELSE IF Len(as) = 2
    THEN IF fl.packageFlag THEN [usage |-> TRUE, pkg |-> <<>>, name |-> <<>>]
         ELSE [usage |-> FALSE, pkg |-> as[1], name |-> as[2]]
    ELSE [usage |-> TRUE, pkg |-> <<>>, name |-> <<>>]

\* main's switch on flag.NArg(): usage() or the values of pkg and name.
ArgSwitch(fl, as) ==
    IF Len(as) = 1
    THEN IF fl.packageFlag THEN [usage |-> FALSE, pkg |-> as[1], name |-> <<>>]
         ELSE IF fl.regexpFlag THEN [usage |-> FALSE, pkg |-> <<>>, name |-> as[1]]
         ELSE IF Contains(as[1], ".")
         THEN [usage |-> FALSE, pkg |-> split(as[1]).pkg, name |-> split(as[1]).name]
         ELSE [usage |-> FALSE, pkg |-> <<>>, name |-> as[1]]
    ELSE IF Len(as) = 2
    THEN IF fl.packageFlag THEN [usage |-> TRUE, pkg |-> <<>>, name |-> <<>>]
         ELSE [usage |-> FALSE, pkg |-> as[1], name |-> as[2]]
    ELSE [usage |-> TRUE, pkg |-> <<>>, name |-> <<>>]

\* os.Exit(code) after writing msg to os.Stderr
Exit(code, msg) ==
    /\ pc' = "exit"
    /\ exitCode' = code
    /\ stderr' = IF msg = "" THEN stderr ELSE Append(stderr, msg)

\* main, from flag.Parse to the defaults of the flags
FlagDefaults ==
    /\ pc = "main"
    /\ flags' = DefaultOutputs(DefaultKinds(flags))
    /\ pc' = "dispatch"
    /\ UNCHANGED <<given, args, pkg, name, exitCode, stderr, stdout, located, dirsLeft,
                   parsed, curDir, pkgsLeft, curPkg, filesLeft, files, found, fileIdx,
                   objs, niled, msLog, walks, cand, matched, run, prevOut>>

\* main, from the switch on the number of arguments to the slash check
Dispatch ==
    /\ pc = "dispatch"
    /\ LET sw == ArgSwitch(flags, args) IN
       \/ /\ sw.usage
          /\ Exit(2, "usage")
          /\ UNCHANGED <<pkg, name>>
       \/ /\ ~sw.usage
          /\ Contains(sw.pkg, slash)
          /\ Exit(2, "doc: package name cannot contain slash (TODO)")
          /\ pkg' = sw.pkg /\ name' = sw.name
       \/ /\ ~sw.usage
          /\ ~Contains(sw.pkg, slash)
          /\ pkg' = sw.pkg /\ name' = sw.name
          /\ pc' = "paths"
          /\ UNCHANGED <<exitCode, stderr>>
    /\ UNCHANGED <<given, args, flags, stdout, located, dirsLeft,
                   parsed, curDir, pkgsLeft, curPkg, filesLeft, files, found, fileIdx,
                   objs, niled, msLog, walks, cand, matched, run, prevOut>>

(***************************************************************************)
(* paths, pathsFor                                                         *)
(***************************************************************************)
slashDot == <<slash, ".">>

\* strings.Contains(s, sub)
ContainsStr(s, sub) ==
    \E i \in 1..(Len(s) - Len(sub) + 1) : SubSeq(s, i, i + Len(sub) - 1) = sub

\* strings.HasPrefix
HasPrefix(s, prefix) == Len(prefix) <= Len(s) /\ SubSeq(s, 1, Len(prefix)) = prefix

\* strings.LastIndex(s, c), counted from 1; 0 if c is not in s
LastIndex(s, c) ==
    IF Contains(s, c)
    THEN CHOOSE i \in DOMAIN s : s[i] = c /\ \A j \in (i + 1)..Len(s) : s[j] # c
    ELSE 0

\* filepath.Base of a clean path
Base(path) == SubSeq(path, LastIndex(path, slash) + 1, Len(path))

\* The directories filepath.Walk hands to visit: a directory whose path
\* contains "/." is skipped with everything below it.
Walked(tree) == SelectSeq(tree, LAMBDA d : ~ContainsStr(d.path, slashDot))

\* pathsFor: the walked directories whose last element is pkg, all if pkg is empty
pathsFor(tree, p) ==
    LET hits == SelectSeq(Walked(tree), LAMBDA d : p = <<>> \/ Base(d.path) = p)
    IN [i \in DOMAIN hits |-> hits[i].path]

paths(p) == pathsFor(RootTree, p) \o pathsFor(PathTree, p)

\* main: paths(pkg), the list the loop over the directories ranges over
Paths ==
    /\ pc = "paths"
    /\ dirsLeft' = paths(pkg)
    /\ located' = TRUE
    /\ pc' = "dirs"
    /\ UNCHANGED <<given, args, flags, pkg, name, exitCode, stderr, stdout,
                   parsed, curDir, pkgsLeft, curPkg, filesLeft, files, found, fileIdx,
                   objs, niled, msLog, walks, cand, matched, run, prevOut>>


(***************************************************************************)
(* File and its methods.  A File is the record                             *)
(*   [name, ident, regexp, pathPrefix, urlPrefix, doPrint]                 *)
(* and a walk threads the record st = [out, niled, found, ms, walks]:      *)
(* standard output, the FuncDecls with a nil Body, the File's found field  *)
(* and the histories msLog and walks.                                      *)
(***************************************************************************)
godocOrg == <<"http://godoc.org">>
golangPkg == <<"http://golang.org/pkg">>
golangCmd == <<"http://golang.org/cmd">>

Pos(fileName, line) == <<fileName, line>>

\* doPackage: the source of the regular expression compiled for ident
RegexpSource(ident) == <<"^", "(", "?", "i", ":">> \o ident \o <<")", "$">>

\* doPackage: regexp.QuoteMeta(ident) != ident
IsRegexp(ident) == QuoteMeta(ident) # ident

\* File.match without its test that the name is exported
matchAnyCase(f, nm) ==
    IF f.regexp.op = "nil" THEN ToLower(nm) = ToLower(f.ident)
    ELSE MatchString(f.regexp, nm)

\* File.match
match(f, nm) ==
    IF ~IsExported(nm) THEN FALSE
    ELSE IF f.regexp.op = "nil" THEN ToLower(nm) = ToLower(f.ident)
    ELSE MatchString(f.regexp, nm)

\* strings.TrimPrefix
TrimPrefix(s, prefix) ==
    IF HasPrefix(s, prefix) THEN SubSeq(s, Len(prefix) + 1, Len(s)) ELSE s

\* File.packageURL
packageURL(f) ==
    LET s == TrimPrefix(f.name, f.pathPrefix)
        i == LastIndex(s, slash) - 1      \* the index as Go counts it
    IN f.urlPrefix \o (IF i > 0 THEN SubSeq(s, 1, i + 1) ELSE s)

\* File.sourcePos; <<>> is the empty string
sourcePos(posn) == IF ~flags.srcFlag THEN <<>> ELSE <<posn>>

\* File.nameURL
nameURL(f, nm) == IF ~flags.urlFlag THEN <<>> ELSE packageURL(f) \o <<"#">> \o nm

\* File.methodURL: typ is the receiver's type expression, a name or *name
methodURL(f, typ, nm) ==
    IF ~flags.urlFlag THEN <<>>
    ELSE LET printed  == (IF typ.ptr THEN <<"*">> ELSE <<>>) \o typ.typ
             typeName == IF Len(printed) > 0 /\ printed[1] = "*" THEN Tail(printed)
                         ELSE printed
         IN packageURL(f) \o <<"#">> \o typeName \o <<".">> \o nm

\* File.docs: the node as go/printer prints it, with the comments bound to
\* it; a FuncDecl is printed with its body unless the Body is nil.
docs(nil, f, node) ==
    IF ~flags.docFlag THEN <<>>
    ELSE << [file |-> f.name, node |-> node.node, line |-> node.line,
             body |-> node.node = "FuncDecl" /\ Pos(f.name, node.line) \notin nil,
             pkgName |-> <<>>] >>

\* An entry of standard output: the three strings of one Printf or Print.
\* via, kind, pos, name and call are history: the function that wrote the
\* entry, the kind, identifier position and name of the node it is about, and
\* the number of the methodSet call (0 outside methodSet).
Entry(via, kind, pos, nm, call, url, src, doc) ==
    [via |-> via, kind |-> kind, pos |-> pos, name |-> nm, call |-> call,
     url |-> url, src |-> src, doc |-> doc]

\* File.printNode that prints whatever doPrint is
printNodeInBothPasses(st, f, node, ident, url) ==
    [st EXCEPT !.found = TRUE,
               !.out = Append(@,
                   Entry("printNode", node.node, Pos(f.name, ident.line), ident.name, 0,
                         url, sourcePos(Pos(f.name, ident.line)), docs(st.niled, f, node)))]

\* File.printNode
printNode(st, f, node, ident, url) ==
    IF ~f.doPrint THEN [st EXCEPT !.found = TRUE]
    ELSE [st EXCEPT !.out = Append(@,
             Entry("printNode", node.node, Pos(f.name, ident.line), ident.name, 0,
                   url, sourcePos(Pos(f.name, ident.line)), docs(st.niled, f, node)))]

\* File.pkgComments that sets found as printNode does
pkgCommentsFound(st, f, ast) ==
    IF ~ast.doc THEN st
    ELSE [st EXCEPT !.found = TRUE,
                    !.out = Append(@,
             Entry("pkgComments", "package", Pos(f.name, 1), ast.pkgName, 0,
                   IF flags.urlFlag THEN packageURL(f) ELSE <<>>,
                   sourcePos(Pos(f.name, 1)),
                   IF flags.docFlag
                   THEN << [file |-> f.name, node |-> "package", line |-> 1,
                            body |-> FALSE, pkgName |-> ast.pkgName] >>
                   ELSE <<>>))]

\* File.pkgComments; the doc comment of the package clause is on line 1
pkgComments(st, f, ast) ==
    IF ~ast.doc THEN st
    ELSE [st EXCEPT !.out = Append(@,
             Entry("pkgComments", "package", Pos(f.name, 1), ast.pkgName, 0,
                   IF flags.urlFlag THEN packageURL(f) ELSE <<>>,
                   sourcePos(Pos(f.name, 1)),
                   IF flags.docFlag
                   THEN << [file |-> f.name, node |-> "package", line |-> 1,
                            body |-> FALSE, pkgName |-> ast.pkgName] >>
                   ELSE <<>>))]


(***************************************************************************)
(* The type checker (types.Config.Check) and the method sets               *)
(* (typeutil.MethodSetCache), for the declarations of one package.         *)
(***************************************************************************)
\* The FuncDecls of the package with receiver type typeName, as method objects.
DeclaredMethods(path, pkgName, typeName) ==
    UNION { { [name |-> ast.decls[k].name, pos |-> Pos(Join(path, ast.base), ast.decls[k].line),
               ptr |-> ast.decls[k].recv.ptr] :
              k \in {j \in DOMAIN ast.decls : /\ ast.decls[j].node = "FuncDecl"
                                              /\ ast.decls[j].recv.typ = typeName} } :
            ast \in PackageAt(path, pkgName).files }

\* A set of method objects as the sequence sorted by name.
RECURSIVE SortByName(_)
SortByName(ms) ==
    IF ms = {} THEN <<>>
    ELSE LET m == CHOOSE x \in ms : \A y \in ms \ {x} : StrLess(x.name, y.name)
         IN <<m>> \o SortByName(ms \ {m})

\* MethodSet(T) for the type of spec declared in fileName, or MethodSet(*T)
\* if pointer: T's method set holds the methods with a value receiver (those
\* listed in the interface, for an interface), *T's holds all declared ones.
MethodSet(path, pkgName, fileName, spec, pointer) ==
    LET declared == DeclaredMethods(path, pkgName, spec.name) IN
    SortByName(
        IF spec.shape = "interface"
        THEN IF pointer THEN {}
             ELSE {[name |-> spec.imethods[k].name,
                    pos |-> Pos(fileName, spec.imethods[k].line), ptr |-> FALSE] :
                   k \in DOMAIN spec.imethods}
        ELSE IF pointer THEN declared
             ELSE {m \in declared : ~m.ptr})

\* File.Visit: the method set handed to File.methodSet
ResolveMethodSet(path, pkgName, fileName, spec) ==
    LET ms == MethodSet(path, pkgName, fileName, spec, FALSE) IN
    IF Len(ms) = 0 THEN MethodSet(path, pkgName, fileName, spec, TRUE) ELSE ms

\* The TypeSpecs of a file
TypeSpecs(ast) ==
    UNION { {ast.decls[k].specs[j] : j \in DOMAIN ast.decls[k].specs} :
            k \in {i \in DOMAIN ast.decls : /\ ast.decls[i].node = "GenDecl"
                                            /\ ast.decls[i].tok = "type"} }

\* info.Defs taken to hold every type name, resolved or not
CheckEveryName(path, pkgName) ==
    UNION { {Pos(Join(path, ast.base), spec.line) : spec \in TypeSpecs(ast)} :
            ast \in PackageAt(path, pkgName).files }

\* info.Defs after config.Check: the type names with an object that has a type
Check(path, pkgName) ==
    UNION { {Pos(Join(path, ast.base), spec.line) : spec \in {t \in TypeSpecs(ast) : t.resolved}} :
            ast \in PackageAt(path, pkgName).files }

(***************************************************************************)
(* File.methodSet and methodVisitor.  A visitor is the record              *)
(* [methods, docs, niled]; a method is [index, name, pos].                 *)
(***************************************************************************)
\* methodVisitor.Visit: n.Body = nil
ClearMethodBody(nil, pos) == nil \cup {pos}

\* The doc stored in the first free slot, that is in the order of discovery
StoreDocInOrder(docsArr, method, text) ==
    LET free == {i \in DOMAIN docsArr : docsArr[i] = <<>>} IN
    IF free = {} THEN docsArr
    ELSE [docsArr EXCEPT ![CHOOSE x \in free : \A y \in free : x <= y] = text]

\* methodVisitor.Visit: visitor.docs[method.index] = ...
StoreDoc(docsArr, method, text) == [docsArr EXCEPT ![method.index] = text]

\* append(visitor.methods[:i], visitor.methods[i+1:]...)
DropAt(seq, i) == SubSeq(seq, 1, i - 1) \o SubSeq(seq, i + 1, Len(seq))

\* methodVisitor.Visit for a declaration n of the file of vf
methodVisit(mv, vf, n) ==
    IF n.node # "FuncDecl" THEN mv
    ELSE LET hit == {i \in DOMAIN mv.methods : mv.methods[i].pos = Pos(vf.name, n.line)} IN
         IF hit = {} THEN mv
         ELSE LET i   == CHOOSE x \in hit : \A y \in hit : x <= y
                  nil == ClearMethodBody(mv.niled, Pos(vf.name, n.line))
              IN [methods |-> IF Len(mv.methods) = 1 THEN mv.methods
                              ELSE DropAt(mv.methods, i),
                  docs    |-> StoreDoc(mv.docs, mv.methods[i], docs(nil, vf, n)),
                  niled   |-> nil]

\* ast.Walk(visitor, file.file)
RECURSIVE methodWalk(_, _, _, _)
methodWalk(mv, vf, decls, k) ==
    IF k > Len(decls) THEN mv
    ELSE methodWalk(methodVisit(mv, vf, decls[k]), vf, decls, k + 1)

\* File.methodSet: the loop over f.allFiles
RECURSIVE methodFiles(_, _, _)
methodFiles(mv, allFiles, k) ==
    IF k > Len(allFiles) THEN mv
    ELSE methodFiles(methodWalk(mv, allFiles[k],
                                AstFile(curDir, curPkg, allFiles[k].name).decls, 1),
                     allFiles, k + 1)

\* File.methodSet: the methods looked for, the exported ones of set
Wanted(set) ==
    LET idx == SelectSeq([i \in DOMAIN set |-> i], LAMBDA i : IsExported(set[i].name))
    IN [k \in DOMAIN idx |-> [index |-> idx[k], name |-> set[idx[k]].name,
                              pos |-> set[idx[k]].pos]]

\* The name of the FuncDecl at a position
FuncNameAt(pos) ==
    LET decls == AstFile(curDir, curPkg, pos[1]).decls
        k == CHOOSE i \in DOMAIN decls : decls[i].node = "FuncDecl" /\ decls[i].line = pos[2]
    IN decls[k].name

\* File.methodSet(set); typ, the position and name of the type, is history
methodSet(st, allFiles, typ, set) ==
    LET methods == Wanted(set)
        call    == Len(st.ms) + 1
        logged  == [typ |-> typ.pos, dir |-> curDir, pkg |-> curPkg, name |-> typ.name,
                    methods |-> [i \in DOMAIN methods |-> methods[i].name]]
    IN
    IF Len(methods) = 0
    THEN [st EXCEPT !.ms = Append(@, logged)]
    ELSE LET mv == methodFiles([methods |-> methods,
                                docs |-> [i \in DOMAIN set |-> <<>>],
                                niled |-> st.niled], allFiles, 1)
             printed == SelectSeq(mv.docs, LAMBDA d : d # <<>>)
         IN [st EXCEPT
               !.niled = mv.niled,
               !.out = @ \o [i \in DOMAIN printed |->
                               LET pos == Pos(printed[i][1].file, printed[i][1].line) IN
                               Entry("methodSet", "FuncDecl", pos, FuncNameAt(pos), call,
                                     <<>>, <<>>, printed[i])],
               !.ms = Append(@, logged)]


(***************************************************************************)
(* File.Visit, for the declarations ast.Walk hands to it.                  *)
(***************************************************************************)
\* File.Visit without n.Body = nil
KeepBody(nil, pos) == nil

\* File.Visit: n.Body = nil
ClearBody(nil, pos) == nil \cup {pos}

\* File.Visit, case *ast.ValueSpec, without the test of the keyword
VisitValueSpecAnyKeyword(st, f, n, spec) ==
    IF flags.constantFlag \/ flags.variableFlag
    THEN LET hit == {i \in DOMAIN spec.names : match(f, spec.names[i].name)} IN
         IF hit = {} THEN st
         ELSE LET ident == spec.names[CHOOSE x \in hit : \A y \in hit : x <= y]
              IN printNode(st, f, n, ident, nameURL(f, ident.name))
    ELSE st

\* File.Visit, case *ast.ValueSpec: the first name that matches is printed
VisitValueSpec(st, f, n, spec) ==
    IF (flags.constantFlag /\ n.tok = "const") \/ (flags.variableFlag /\ n.tok = "var")
    THEN LET hit == {i \in DOMAIN spec.names : match(f, spec.names[i].name)} IN
         IF hit = {} THEN st
         ELSE LET ident == spec.names[CHOOSE x \in hit : \A y \in hit : x <= y]
              IN printNode(st, f, n, ident, nameURL(f, ident.name))
    ELSE st

\* File.Visit, case *ast.TypeSpec, with the node chosen by the number of Specs
VisitTypeSpecByCount(st, f, n, spec) ==
    LET node == IF Len(n.specs) > 1 THEN [node |-> "TypeSpec", line |-> spec.line] ELSE n
        url  == nameURL(f, spec.name)
        id   == Ident(spec.name, spec.line)
        st1  == IF flags.typeFlag THEN printNode(st, f, node, id, url)
                ELSE IF spec.shape = "interface" /\ flags.interfaceFlag
                THEN printNode(st, f, node, id, url)
                ELSE IF spec.shape = "struct" /\ flags.structFlag
                THEN printNode(st, f, node, id, url)
                ELSE st
    IN IF ~match(f, spec.name) THEN st
       ELSE IF f.doPrint /\ Pos(f.name, spec.line) \in objs
       THEN methodSet(st1, files, [pos |-> Pos(f.name, spec.line), name |-> spec.name],
                      ResolveMethodSet(curDir, curPkg, f.name, spec))
       ELSE st1

\* File.Visit, case *ast.TypeSpec
VisitTypeSpec(st, f, n, spec) ==
    LET node == IF n.lparen THEN [node |-> "TypeSpec", line |-> spec.line] ELSE n
        url  == nameURL(f, spec.name)
        id   == Ident(spec.name, spec.line)
        st1  == IF flags.typeFlag THEN printNode(st, f, node, id, url)
                ELSE IF spec.shape = "interface" /\ flags.interfaceFlag
                THEN printNode(st, f, node, id, url)
                ELSE IF spec.shape = "struct" /\ flags.structFlag
                THEN printNode(st, f, node, id, url)
                ELSE st
    IN IF ~match(f, spec.name) THEN st
       ELSE IF f.doPrint /\ Pos(f.name, spec.line) \in objs
       THEN methodSet(st1, files, [pos |-> Pos(f.name, spec.line), name |-> spec.name],
                      ResolveMethodSet(curDir, curPkg, f.name, spec))
       ELSE st1

RECURSIVE VisitSpecs(_, _, _, _)
VisitSpecs(st, f, n, k) ==
    IF k > Len(n.specs) THEN st
    ELSE LET spec == n.specs[k]
             st1  == IF spec.spec = "ValueSpec" THEN VisitValueSpec(st, f, n, spec)
                     ELSE IF spec.spec = "TypeSpec" THEN VisitTypeSpec(st, f, n, spec)
                     ELSE st    \* ImportSpec: don't care
         IN VisitSpecs(st1, f, n, k + 1)

\* File.Visit, case *ast.FuncDecl
VisitFuncDecl(st, f, n) ==
    IF ~match(f, n.name) THEN st
    ELSE LET st1 == [st EXCEPT !.niled = ClearBody(@, Pos(f.name, n.line))] IN
         IF flags.methodFlag /\ n.recv # NoRecv
         THEN printNode(st1, f, n, Ident(n.name, n.line), methodURL(f, n.recv, n.name))
         ELSE IF flags.functionFlag /\ n.recv = NoRecv
         THEN printNode(st1, f, n, Ident(n.name, n.line), nameURL(f, n.name))
         ELSE st1

\* ast.Walk below a FuncDecl: the declarations of the Body, if it is not nil
RECURSIVE WalkBody(_, _, _, _)
WalkBody(st, f, body, k) ==
    IF k > Len(body) THEN st
    ELSE WalkBody(VisitSpecs(st, f, body[k], 1), f, body, k + 1)

Visit(st, f, n) ==
    IF n.node = "GenDecl" THEN VisitSpecs(st, f, n, 1)
    ELSE LET st1 == VisitFuncDecl(st, f, n) IN
         IF Pos(f.name, n.line) \in st1.niled THEN st1
         ELSE WalkBody(st1, f, n.body, 1)

\* ast.Walk(file, file.file): Visit for the declarations from the k-th on
RECURSIVE Walk(_, _, _, _)
Walk(st, f, decls, k) ==
    IF k > Len(decls) THEN st
    ELSE Walk(Visit(st, f, decls[k]), f, decls, k + 1)

\* doPackage's ast.Walk(file, file.file), counted in walks
WalkFile(st, f, ast) == Walk([st EXCEPT !.walks = @ + 1], f, ast.decls, 1)

\* The walk of the file made in package mode too
ScanFileAlwaysWalk(st, f, ast) ==
    IF flags.packageFlag THEN WalkFile(pkgComments(st, f, ast), f, ast)
    ELSE WalkFile(st, f, ast)

\* doPackage, in both loops: the package comment or the walk of the file
ScanFile(st, f, ast) ==
    IF flags.packageFlag THEN pkgComments(st, f, ast) ELSE WalkFile(st, f, ast)

(***************************************************************************)
(* lookInDirectory and doPackage                                           *)
(***************************************************************************)
\* doPackage: file.urlPrefix and file.pathPrefix for the file called fileName
Prefixes(fileName) ==
    IF HasPrefix(fileName, goRootSrcPkg)
    THEN [urlPrefix |-> golangPkg, pathPrefix |-> goRootSrcPkg]
    ELSE IF HasPrefix(fileName, goRootSrcCmd)
    THEN [urlPrefix |-> golangCmd, pathPrefix |-> goRootSrcCmd]
    ELSE LET hit == {i \in DOMAIN goPaths : HasPrefix(fileName, Join(goPaths[i], sSrc))} IN
         [urlPrefix |-> godocOrg,
          pathPrefix |-> IF hit = {} THEN <<>>
                         ELSE Join(goPaths[CHOOSE x \in hit : \A y \in hit : x <= y], sSrc)]

\* doPackage: the regular expression of ident, if it is one
CompileIdent(ident) ==
    IF IsRegexp(ident) THEN Compile(RegexpSource(ident))
    ELSE [ok |-> TRUE, re |-> NoRegexp]

\* doPackage: the File of the file called fileName
NewFile(fileName, ident, re) ==
    [name |-> fileName, ident |-> ident, regexp |-> re,
     pathPrefix |-> Prefixes(fileName).pathPrefix,
     urlPrefix |-> Prefixes(fileName).urlPrefix,
     doPrint |-> FALSE]

\* The walk state of doPackage's loops
WalkState == [out |-> stdout, niled |-> niled, found |-> FALSE, ms |-> msLog,
              walks |-> walks]

\* Where the program goes on when doPackage returns
AfterPackage == IF pkgsLeft = {} THEN "dirs" ELSE "pkgs"

\* main's loop over paths(pkg), and lookInDirectory up to its loop over pkgs
LookInDirectory ==
    /\ pc = "dirs"
    /\ dirsLeft # <<>>
    /\ curDir' = Head(dirsLeft)
    /\ dirsLeft' = Tail(dirsLeft)
    /\ parsed' = Append(parsed, Head(dirsLeft))
    /\ pkgsLeft' = {p.name : p \in DirAt(Head(dirsLeft)).pkgs}
    /\ pc' = IF DirAt(Head(dirsLeft)).pkgs = {} THEN "dirs" ELSE "pkgs"
    /\ UNCHANGED <<given, args, flags, pkg, name, exitCode, stderr, stdout, located,
                   curPkg, filesLeft, files, found, fileIdx,
                   objs, niled, msLog, walks, cand, matched, run, prevOut>>

\* main returns when the loop over paths(pkg) ends
MainReturns ==
    /\ pc = "dirs"
    /\ dirsLeft = <<>>
    /\ pc' = "exit"
    /\ exitCode' = 0
    /\ UNCHANGED <<given, args, flags, pkg, name, stderr, stdout, located, dirsLeft,
                   parsed, curDir, pkgsLeft, curPkg, filesLeft, files, found, fileIdx,
                   objs, niled, msLog, walks, cand, matched, run, prevOut>>

\* lookInDirectory's loop over the map pkgs: the call of doPackage
StartPackage ==
    /\ pc = "pkgs"
    /\ \E p \in pkgsLeft :
          /\ curPkg' = p
          /\ pkgsLeft' = pkgsLeft \ {p}
          /\ filesLeft' = FileNames(curDir, p)
    /\ files' = <<>>
    /\ found' = FALSE
    /\ objs' = {}
    /\ fileIdx' = 0
    /\ pc' = "loop1"
    /\ UNCHANGED <<given, args, flags, pkg, name, exitCode, stderr, stdout, located,
                   dirsLeft, parsed, curDir, niled, msLog, walks, cand, matched,
                   run, prevOut>>

\* doPackage: one iteration of the first loop over the map pkg.Files
FirstLoop ==
    /\ pc = "loop1"
    /\ \E fileName \in filesLeft :
         LET ast  == AstFile(curDir, curPkg, fileName)
             re   == CompileIdent(name)
             file == NewFile(fileName, name, re.re)
             st   == ScanFile(WalkState, file, ast)
         IN /\ filesLeft' = filesLeft \ {fileName}
            /\ IF flags.packageFlag /\ ~ast.doc
               THEN UNCHANGED <<pc, exitCode, stderr, files, found, stdout, niled, msLog, walks>>
               ELSE IF ~re.ok
               THEN /\ Exit(2, "regular expression")
                    /\ UNCHANGED <<files, found, stdout, niled, msLog, walks>>
               ELSE /\ files' = Append(files, file)
                    /\ UNCHANGED <<pc, exitCode, stderr>>
                    /\ IF found
                       THEN UNCHANGED <<found, stdout, niled, msLog, walks>>
                       ELSE /\ found' = st.found
                            /\ stdout' = st.out
                            /\ niled' = st.niled
                            /\ msLog' = st.ms
                            /\ walks' = st.walks
    /\ UNCHANGED <<given, args, flags, pkg, name, located, dirsLeft, parsed, curDir,
                   pkgsLeft, curPkg, fileIdx, objs, cand, matched, run, prevOut>>

\* doPackage: nothing was found, return
ReturnNotFound ==
    /\ pc = "loop1"
    /\ filesLeft = {}
    /\ ~found
    /\ pc' = AfterPackage
    /\ UNCHANGED <<given, args, flags, pkg, name, exitCode, stderr, stdout, located,
                   dirsLeft, parsed, curDir, pkgsLeft, curPkg, filesLeft, files, found,
                   fileIdx, objs, niled, msLog, walks, cand, matched, run, prevOut>>

\* doPackage: the type check of the package's files
TypeCheck ==
    /\ pc = "loop1"
    /\ filesLeft = {}
    /\ found
    /\ objs' = Check(curDir, curPkg)
    /\ fileIdx' = 1
    /\ pc' = "loop2"
    /\ UNCHANGED <<given, args, flags, pkg, name, exitCode, stderr, stdout, located,
                   dirsLeft, parsed, curDir, pkgsLeft, curPkg, filesLeft, files, found,
                   niled, msLog, walks, cand, matched, run, prevOut>>

\* doPackage: one iteration of the second loop over files; doPackage returns
\* after the last
SecondLoop ==
    /\ pc = "loop2"
    /\ fileIdx \in DOMAIN files
    /\ LET file == [files[fileIdx] EXCEPT !.doPrint = TRUE]
           ast  == AstFile(curDir, curPkg, file.name)
           st   == ScanFile(WalkState, file, ast)
       IN /\ files' = [files EXCEPT ![fileIdx] = file]
          /\ stdout' = st.out
          /\ niled' = st.niled
          /\ msLog' = st.ms
          /\ walks' = st.walks
    /\ fileIdx' = fileIdx + 1
    /\ pc' = IF fileIdx = Len(files) THEN AfterPackage ELSE "loop2"
    /\ UNCHANGED <<given, args, flags, pkg, name, exitCode, stderr, located,
                   dirsLeft, parsed, curDir, pkgsLeft, curPkg, filesLeft, found,
                   objs, cand, matched, run, prevOut>>


(***************************************************************************)
(* The program from its start to its exit, for command lines drawn from    *)
(* KindChoices, the output flags, -r and ArgChoices.                       *)
(***************************************************************************)
KindChoices ==
    {{}} \cup {{k} : k \in KindFlags}
         \cup {{"interfaceFlag", "structFlag"}, {"functionFlag", "methodFlag"},
               {"packageFlag", "functionFlag"}}

ArgChoices ==
    { <<>>,
      <<nTlow>>,
      << <<"p","r","i","n","t">> >>,
      << <<".","?","p","r","i","n","t">> >>,
      << <<"(">> >>,
      << <<"t","|","k">> >>,
      << <<"f","m","t">> >>,
      << <<"a">> >>,
      << <<"f","m","t",".","P","r","i","n","t">> >>,
      << <<"f","m","t">>, <<"f","p","r","i","n","t">> >>,
      << <<"a","/","b">>, nT>>,
      <<sSrc, <<"(">> >>,
      <<nTlow, nTlow, nTlow>> }

Start(fl, as) ==
    /\ given = fl
    /\ args = as
    /\ flags = fl
    /\ pc = "main"
    /\ pkg = <<>> /\ name = <<>>
    /\ exitCode = -1
    /\ stderr = <<>> /\ stdout = <<>>
    /\ located = FALSE
    /\ dirsLeft = <<>> /\ parsed = <<>> /\ curDir = <<>>
    /\ pkgsLeft = {} /\ curPkg = <<>> /\ filesLeft = {}
    /\ files = <<>> /\ found = FALSE /\ fileIdx = 0
    /\ objs = {} /\ niled = {} /\ msLog = <<>> /\ walks = 0
    /\ cand = <<>> /\ matched = "none"
    /\ run = 1 /\ prevOut = <<>>

Init ==
    \E k \in KindChoices, o \in SUBSET OutputFlags, r \in SUBSET {"regexpFlag"},
       as \in ArgChoices :
        Start(FlagsOf(k \cup o \cup r), as)

Next ==
    \/ FlagDefaults
    \/ Dispatch
    \/ Paths
    \/ LookInDirectory
    \/ MainReturns
    \/ StartPackage
    \/ FirstLoop
    \/ ReturnNotFound
    \/ TypeCheck
    \/ SecondLoop

Spec == Init /\ [][Next]_vars


(***************************************************************************)
(* The same command line run a second time, on the same source trees.      *)
(***************************************************************************)
Rerun ==
    /\ pc = "exit"
    /\ run = 1
    /\ run' = 2
    /\ prevOut' = stdout
    /\ flags' = given
    /\ pc' = "main"
    /\ pkg' = <<>> /\ name' = <<>>
    /\ exitCode' = -1
    /\ stderr' = <<>> /\ stdout' = <<>>
    /\ located' = FALSE
    /\ dirsLeft' = <<>> /\ parsed' = <<>> /\ curDir' = <<>>
    /\ pkgsLeft' = {} /\ curPkg' = <<>> /\ filesLeft' = {}
    /\ files' = <<>> /\ found' = FALSE /\ fileIdx' = 0
    /\ objs' = {} /\ niled' = {} /\ msLog' = <<>> /\ walks' = 0
    /\ UNCHANGED <<given, args, cand, matched>>

NextTwice == Next \/ Rerun

SpecTwice == Init /\ [][NextTwice]_vars

(***************************************************************************)
(* main up to the end of its argument handling, for every combination of   *)
(* the flags.                                                              *)
(***************************************************************************)
InitFlags ==
    \E on \in SUBSET AllFlags,
       as \in { <<>>, <<nTlow>>, << <<"f","m","t">>, nPrint >>, << <<"a","/","b">>, nT >> } :
        Start(FlagsOf(on), as)

NextFlags == FlagDefaults \/ Dispatch

SpecFlags == InitFlags /\ [][NextFlags]_vars

(***************************************************************************)
(* File.match for every identifier and candidate name of bounded length:   *)
(* doPackage makes the File of one file, then the name is matched.         *)
(***************************************************************************)
MaxPat == 3
MaxName == 2
PatChars == {"a", "B", ".", "?", "|", "(", ")"}
NameChars == {"a", "A", "B"}

Strings(chars, n) == UNION {[1..k -> chars] : k \in 0..n}

\* An identifier that closes the group of "^(?i:" and opens one before ")$"
Unbalanced == <<"a", ")", "|", "(", "B">>

InitMatch ==
    /\ given = FlagsOf({}) /\ flags = FlagsOf({}) /\ args = <<>>
    /\ pc = "compile"
    /\ pkg = <<>>
    /\ name \in Strings(PatChars, MaxPat) \cup {Unbalanced}
    /\ cand \in Strings(NameChars, MaxName)
    /\ matched = "none"
    /\ exitCode = -1
    /\ stderr = <<>> /\ stdout = <<>>
    /\ located = FALSE
    /\ dirsLeft = <<>> /\ parsed = <<>> /\ curDir = <<>>
    /\ pkgsLeft = {} /\ curPkg = <<>> /\ filesLeft = {}
    /\ files = <<>> /\ found = FALSE /\ fileIdx = 0
    /\ objs = {} /\ niled = {} /\ msLog = <<>> /\ walks = 0
    /\ run = 1 /\ prevOut = <<>>

\* doPackage: the File of a file, with the regular expression of ident
MakeFile ==
    /\ pc = "compile"
    /\ LET re == CompileIdent(name) IN
       IF ~re.ok
       THEN /\ Exit(2, "regular expression")
            /\ UNCHANGED files
       ELSE /\ files' = <<NewFile(Join(Join(GoPathSrc, <<"b">>), fB.base), name, re.re)>>
            /\ pc' = "match"
            /\ UNCHANGED <<exitCode, stderr>>
    /\ UNCHANGED <<given, args, flags, pkg, name, stdout, located, dirsLeft, parsed,
                   curDir, pkgsLeft, curPkg, filesLeft, found, fileIdx, objs, niled,
                   msLog, walks, cand, matched, run, prevOut>>

\* File.match(cand)
MatchName ==
    /\ pc = "match"
    /\ matched' = match(files[1], cand)
    /\ pc' = "matched"
    /\ UNCHANGED <<given, args, flags, pkg, name, exitCode, stderr, stdout, located,
                   dirsLeft, parsed, curDir, pkgsLeft, curPkg, filesLeft, files, found,
                   fileIdx, objs, niled, msLog, walks, cand, run, prevOut>>

NextMatch == MakeFile \/ MatchName

SpecMatch == InitMatch /\ [][NextMatch]_vars


(***************************************************************************)
(* Properties.                                                             *)
(***************************************************************************)
Range(seq) == {seq[i] : i \in DOMAIN seq}

\* a and b are the same letters, in whatever case
CaseVariant(a, b) ==
    /\ Len(a) = Len(b)
    /\ \A i \in DOMAIN a : ToLowerChar(a[i]) = ToLowerChar(b[i])

Literal(ident) == \A i \in DOMAIN ident : ident[i] \notin MetaChars

\* C1: in literal mode (no metacharacter in the target) match(cand) is true
\* if and only if cand is exported and equals the target up to the case of
\* its letters; for a name that is not exported it is false.
C1_LiteralMatch ==
    (pc = "matched" /\ Literal(name)) =>
        /\ matched = (IsExported(cand) /\ CaseVariant(cand, name))
        /\ (~IsExported(cand) => matched = FALSE)

C1_Witness ==
    /\ pc = "matched" /\ Literal(name)
    /\ matched = TRUE /\ cand # name /\ Len(cand) = MaxName

\* The pattern r, taken on its own as a case-insensitive regular expression,
\* matches the whole of n.
WholeMatch(r, n) ==
    LET g == ParseGroup(r, 1, TRUE, <<>>, <<>>, FALSE) IN
    /\ g.ok
    /\ g.next = Len(r) + 1
    /\ (Len(n) + 1) \in Ends(g.re, n, 1)

\* C2: in regex mode, for every pattern and every candidate name, match(cand)
\* is true if and only if cand is exported and the whole of cand matches the
\* pattern case-insensitively; and no invocation goes on to match names with
\* something that is no pattern.
C2_AnchoredWholeMatch ==
    (pc = "matched" /\ ~Literal(name)) =>
        matched = (IsExported(cand) /\ WholeMatch(name, cand))

\* The same for the patterns that are regular expressions on their own.
ValidPatternAnchored ==
    (pc = "matched" /\ ~Literal(name) /\ Compile(name).ok) =>
        matched = (IsExported(cand) /\ WholeMatch(name, cand))

\* A proper substring of cand matches the alternation in name, cand does not.
SubstringOnly ==
    /\ pc = "matched" /\ Compile(name).ok /\ Contains(name, "|")
    /\ IsExported(cand) /\ matched = FALSE
    /\ MatchString(Compile(name).re, cand)

\* The exported methods declared for a logged type, by kind of receiver
ExportedMethods(log, ptr) ==
    {m.name : m \in {d \in DeclaredMethods(log.dir, log.pkg, log.name) :
                       d.ptr = ptr /\ IsExported(d.name)}}

\* C3: for every matched type with no exported value-receiver method and at
\* least one exported pointer-receiver method, method-set resolution yields
\* the exported pointer-receiver methods.
C3_Fallback ==
    \A k \in DOMAIN msLog :
        (ExportedMethods(msLog[k], FALSE) = {} /\ ExportedMethods(msLog[k], TRUE) # {})
            => Range(msLog[k].methods) = ExportedMethods(msLog[k], TRUE)

\* The bytes of standard output: the three strings of every entry
Bytes(out) == [i \in DOMAIN out |-> [url |-> out[i].url, src |-> out[i].src,
                                     doc |-> out[i].doc]]

\* C4: the second run of a query on the same trees writes the bytes the
\* first run wrote, whatever the order of the iterations over the maps.
C4_ByteIdentical ==
    (run = 2 /\ pc = "exit") => Bytes(stdout) = Bytes(prevOut)

\* The target main takes from the command line
Target == ArgSwitch(DefaultOutputs(DefaultKinds(given)), args)

BadTarget ==
    /\ ~Target.usage
    /\ ~Contains(Target.pkg, slash)
    /\ ~Literal(Target.name)
    /\ ~Compile(RegexpSource(Target.name)).ok

\* C5: with a target that is an invalid regular expression, no directory is
\* located, parsed or walked, and the program ends with status 2 and the
\* error on the error stream.
C5_FatalBeforeScan ==
    BadTarget =>
        /\ ~located /\ parsed = <<>> /\ walks = 0
        /\ (pc = "exit" => (exitCode = 2 /\ stderr # <<>>))

\* C6: every FuncDecl on standard output, printed by printNode or by
\* methodSet, had its body cleared before, and its text holds no body,
\* whatever the output flags.
C6_NoBody ==
    \A i \in DOMAIN stdout :
        stdout[i].kind = "FuncDecl" =>
            /\ stdout[i].pos \in niled
            /\ \A d \in Range(stdout[i].doc) : ~d.body

C6_Witness ==
    /\ \E i \in DOMAIN stdout :
         stdout[i].via = "printNode" /\ stdout[i].kind = "FuncDecl" /\ stdout[i].doc # <<>>
    /\ \E i \in DOMAIN stdout :
         stdout[i].via = "methodSet" /\ stdout[i].doc # <<>>

\* C7: the methods written for a matched type are in the order of the
\* resolved method set, that is by name, whatever the order of their
\* declarations and of the files.
C7_MethodOrder ==
    /\ \A i, j \in DOMAIN stdout :
         (/\ i < j
          /\ stdout[i].via = "methodSet" /\ stdout[j].via = "methodSet"
          /\ stdout[i].call = stdout[j].call)
            => StrLess(stdout[i].name, stdout[j].name)
    /\ \A i \in DOMAIN stdout :
         stdout[i].via = "methodSet" =>
            stdout[i].name \in Range(msLog[stdout[i].call].methods)

C7_Witness ==
    /\ Len(files) = 2
    /\ Base(files[1].name) = fA1.base
    /\ \E i \in DOMAIN stdout :
         /\ i + 2 \in DOMAIN stdout
         /\ \A d \in 0..2 : stdout[i + d].via = "methodSet"
         /\ stdout[i].name = nA /\ stdout[i + 1].name = nB /\ stdout[i + 2].name = nC

Malformed == Len(args) \notin {1, 2} \/ (given.packageFlag /\ Len(args) = 2)

\* C8: with a number of arguments other than 1 or 2, or with -package and
\* two arguments, the program writes the usage text to the error stream and
\* exits with status 2; it writes nothing to standard output and locates and
\* scans no directory.
C8_Usage ==
    Malformed =>
        /\ pc \in {"main", "dispatch", "exit"}
        /\ stdout = <<>>
        /\ ~located /\ parsed = <<>> /\ walks = 0
        /\ (pc = "exit" => (exitCode = 2 /\ stderr = <<"usage">>))

C8_Witness ==
    /\ pc = "exit" /\ exitCode = 2
    /\ given.packageFlag /\ Len(args) = 2

\* The source file with the given name
SourceFile(fileName) ==
    CHOOSE f \in UNION {UNION {p.files : p \in d.pkgs} : d \in AllDirs} :
        \E d \in AllDirs : Join(d.path, f.base) = fileName /\ \E p \in d.pkgs : f \in p.files

\* C9 as stated: in package mode the only output is the doc comment of the
\* package clause, with the name of the package.
C9_OnlyDocComment ==
    given.packageFlag =>
        \A i \in DOMAIN stdout :
            stdout[i].url = <<>> /\ stdout[i].src = <<>> /\ stdout[i].doc # <<>>

\* C9: in package mode no file is walked, so no declaration is matched or
\* printed; the only output is, for a file whose package clause has a doc
\* comment, what the output flags select of the URL of the package, the
\* position of the comment and the comment with the name of the package
\* clause; a file without such a comment gives nothing.
C9_PackageMode ==
    given.packageFlag =>
        /\ walks = 0 /\ niled = {} /\ msLog = <<>> /\ ~found
        /\ \A i \in DOMAIN stdout :
             LET e == stdout[i]
                 ast == SourceFile(e.pos[1])
             IN /\ e.via = "pkgComments"
                /\ ast.doc
                /\ (e.url # <<>>) = flags.urlFlag
                /\ (e.src # <<>>) = flags.srcFlag
                /\ (e.doc # <<>>) = flags.docFlag
                /\ \A d \in Range(e.doc) : d.node = "package" /\ d.pkgName = ast.pkgName

C9_Witness ==
    /\ given.packageFlag /\ pc = "exit" /\ exitCode = 0
    /\ pkg = <<"a">>
    /\ Len(parsed) > 0
    /\ Len(stdout) = 1

DefaultKindSet == {"constantFlag", "functionFlag", "methodFlag", "typeFlag", "variableFlag"}

\* C10: after startup the kinds in force are const, func, method, type and
\* var if no kind flag was given, and the kind flags given otherwise.
C10_KindDefaults ==
    pc # "main" =>
        On(flags, KindFlags) = IF On(given, KindFlags) = {} THEN DefaultKindSet
                               ELSE On(given, KindFlags)

C10_Witness ==
    /\ pc = "dispatch"
    /\ On(given, KindFlags) = {}
    /\ On(flags, KindFlags) = DefaultKindSet

\* The entries of standard output that render a declaration
Declarations == {i \in DOMAIN stdout : stdout[i].via \in {"printNode", "methodSet"}}

\* An entry holds the URL line, the locator line and the text with the
\* blank line exactly for the output flags that are on; the three strings
\* are written in this order by one Printf.
Formatted(e) ==
    /\ (e.url # <<>>) = flags.urlFlag
    /\ (e.src # <<>>) = flags.srcFlag
    /\ (e.doc # <<>>) = flags.docFlag

\* C11: every declaration written, those written by method-set resolution
\* included, is the URL line if and only if url is on, then the file:line:
\* line if and only if src is on, then the node with its doc comment and a
\* blank line if and only if doc is on.
C11_RenderFormat == \A i \in Declarations : Formatted(stdout[i])

\* The same for the declarations printNode writes.
PrintNodeFormat ==
    \A i \in Declarations : stdout[i].via = "printNode" => Formatted(stdout[i])

\* s up to and including its last path separator
DirPart(s) == SubSeq(s, 1, LastIndex(s, slash))

\* The documentation base of the root of a file, then the path of the file
\* without the root and without the file name
DirectoryURL(fileName) ==
    Prefixes(fileName).urlPrefix
        \o DirPart(TrimPrefix(fileName, Prefixes(fileName).pathPrefix))

URLEntries == {i \in DOMAIN stdout : stdout[i].url # <<>>}

\* C12: the package URL of every file is the documentation base of its root,
\* then the path of the file with the root stripped and the file name
\* dropped; the name of the source file is never in the URL, also for a file
\* that lies in the root directory itself.
C12_PackageURL ==
    \A i \in URLEntries :
        LET e == stdout[i] IN
        /\ HasPrefix(e.url, DirectoryURL(e.pos[1]))
        /\ (e.via = "pkgComments" => e.url = DirectoryURL(e.pos[1]))
        /\ (e.via = "printNode" =>
                HasPrefix(e.url, DirectoryURL(e.pos[1]) \o <<"#">>))
        /\ ~ContainsStr(e.url, Base(e.pos[1]))

\* The same for the files that lie in a directory below their root.
BelowRootURL ==
    \A i \in URLEntries :
        LET e == stdout[i] IN
        LastIndex(TrimPrefix(e.pos[1], Prefixes(e.pos[1]).pathPrefix), slash) > 1 =>
            /\ HasPrefix(e.url, DirectoryURL(e.pos[1]))
            /\ (e.via = "pkgComments" => e.url = DirectoryURL(e.pos[1]))
            /\ ~ContainsStr(e.url, Base(e.pos[1]))

OneArgument == Len(args) = 1 /\ ~given.packageFlag

\* main has taken pkg and name from the command line
Dispatched == pc \notin {"main", "dispatch"}

\* Every directory of the two trees that is not below a dot directory
Locatable ==
    LET all == RootTree \o PathTree
        kept == SelectSeq(all, LAMBDA d : ~ContainsStr(d.path, slashDot))
    IN [i \in DOMAIN kept |-> kept[i].path]

\* C13 as stated: with one argument (no -package) that is a regular
\* expression, the whole argument is the name pattern and the package is empty.
C13_WholeArgument ==
    (OneArgument /\ Dispatched /\ ~Literal(args[1])) =>
        (name = args[1] /\ pkg = <<>>)

\* C13: with -r, or with no dot in the argument, the one argument (no
\* -package) is the name pattern as a whole and the package is empty, so that
\* every locatable directory is searched and the names written are those
\* the pattern matches as a whole; without -r an argument with a dot is split
\* at its first dot into package and name.
C13_RegexpForm ==
    (OneArgument /\ Dispatched) =>
        IF given.regexpFlag \/ ~Contains(args[1], ".")
        THEN /\ name = args[1] /\ pkg = <<>>
             /\ (located => parsed \o dirsLeft = Locatable)
             /\ \A i \in DOMAIN stdout :
                  (stdout[i].via = "printNode" /\ ~Literal(args[1]))
                      => WholeMatch(args[1], stdout[i].name)
        ELSE /\ pkg \o <<".">> \o name = args[1]
             /\ ~Contains(pkg, ".")

PrintedNames == {stdout[i].name : i \in {j \in DOMAIN stdout : stdout[j].via = "printNode"}}

C13_Witness ==
    /\ pc = "exit" /\ exitCode = 0
    /\ given.regexpFlag /\ On(given, KindFlags) = {}
    /\ args = << <<".", "?", "p", "r", "i", "n", "t">> >>
    /\ {nPrint, nFprint, nSprint} \subseteq PrintedNames
    /\ nFprintf \notin PrintedNames

\* The kind of declaration d is enabled and a name it declares matches the
\* target: what the discovery pass looks for.
TypeEnabled(spec) ==
    \/ flags.typeFlag
    \/ (flags.interfaceFlag /\ spec.shape = "interface")
    \/ (flags.structFlag /\ spec.shape = "struct")

NameMatch(f, d) ==
    IF d.node = "FuncDecl"
    THEN /\ match(f, d.name)
         /\ IF d.recv # NoRecv THEN flags.methodFlag ELSE flags.functionFlag
    ELSE \E k \in DOMAIN d.specs :
            LET spec == d.specs[k] IN
            \/ /\ spec.spec = "ValueSpec"
               /\ (d.tok = "const" /\ flags.constantFlag) \/ (d.tok = "var" /\ flags.variableFlag)
               /\ \E j \in DOMAIN spec.names : match(f, spec.names[j].name)
            \/ /\ spec.spec = "TypeSpec"
               /\ match(f, spec.name)
               /\ TypeEnabled(spec)

\* A name match the discovery pass comes to: a declaration of the file, or
\* one in the body of a function whose own name does not match
Discoverable(f, d) ==
    \/ NameMatch(f, d)
    \/ /\ d.node = "FuncDecl"
       /\ ~match(f, d.name)
       /\ \E k \in DOMAIN d.body : NameMatch(f, d.body[k])

\* A file of the package has a match for the target
PackageHasMatch(path, pkgName) ==
    /\ CompileIdent(name).ok
    /\ \E ast \in PackageAt(path, pkgName).files :
          \E k \in DOMAIN ast.decls :
              Discoverable(NewFile(Join(path, ast.base), name, CompileIdent(name).re),
                           ast.decls[k])

\* The package a file name belongs to has a match
FileHasMatch(fileName) ==
    \E d \in AllDirs : \E p \in d.pkgs :
        /\ fileName \in FileNames(d.path, p.name)
        /\ PackageHasMatch(d.path, p.name)

NoMatchAnywhere ==
    \A d \in AllDirs :
        (\E i \in DOMAIN paths(pkg) : paths(pkg)[i] = d.path) =>
            \A p \in d.pkgs : ~PackageHasMatch(d.path, p.name)

ByName == ~given.packageFlag

\* A step of a by-name query: the discovery pass leaves the output alone,
\* only the render pass writes, and the package goes from the discovery pass
\* to the type check and the render pass exactly if something was found.
TwoPassStep ==
    ByName =>
        /\ (pc = "loop1" => stdout' = stdout)
        /\ (stdout' # stdout => (pc = "loop2" /\ found))
        /\ ((pc = "loop1" /\ pc' = "loop2") => (found /\ objs' = Check(curDir, curPkg)))
        /\ ((pc = "loop1" /\ pc' \in {"dirs", "pkgs"}) => ~found)

TwoPassState ==
    ByName =>
        /\ (pc = "loop2" => (found /\ PackageHasMatch(curDir, curPkg)))
        /\ ((pc = "loop1" /\ filesLeft = {}) => (found = PackageHasMatch(curDir, curPkg)))
        /\ \A i \in DOMAIN stdout : FileHasMatch(stdout[i].pos[1])
        /\ ((pc = "exit" /\ located /\ CompileIdent(name).ok /\ NoMatchAnywhere)
                => (stdout = <<>> /\ stderr = <<>> /\ exitCode = 0))

\* C14: in a by-name query the discovery pass over a package writes nothing,
\* and the type check and the render pass of the package are entered if and
\* only if the discovery pass found a match; a package without a match
\* gives no output, and with no match in any directory the program writes
\* nothing and exits with status 0.
C14_TwoPass == [][TwoPassStep]_vars /\ []TwoPassState

C14_Witness ==
    /\ ByName
    /\ pc = "loop2" /\ fileIdx = 1 /\ Len(files) = 2
    /\ found /\ stdout = <<>>
    /\ Len(parsed) > 1

\* The TypeSpec whose name is at a position
TypeSpecAt(pos) ==
    CHOOSE t \in TypeSpecs(SourceFile(pos[1])) : t.line = pos[2]

\* Method-set resolution happens in the render pass only, and only for
\* types the type checker resolved.
MethodSetRenderOnly ==
    /\ [][msLog' # msLog => (pc = "loop2" /\ found)]_vars
    /\ [](\A k \in DOMAIN msLog : TypeSpecAt(msLog[k].typ).resolved)

\* C15: method-set resolution for a type happens only if the type
\* declaration passed the kind filter, only in the render pass and only with
\* type information for the type; never in the discovery pass and never for
\* a matching type that the kind filter rejects.
C15_MethodSetTrigger ==
    /\ [][msLog' # msLog => pc = "loop2"]_vars
    /\ [](\A k \in DOMAIN msLog :
             /\ TypeSpecAt(msLog[k].typ).resolved
             /\ TypeEnabled(TypeSpecAt(msLog[k].typ)))

\* The declarations of the bodies of the functions from the k-th declaration on
RECURSIVE Bodies(_, _)
Bodies(decls, k) ==
    IF k > Len(decls) THEN <<>>
    ELSE (IF decls[k].node = "FuncDecl" THEN decls[k].body ELSE <<>>) \o Bodies(decls, k + 1)

\* The declaration of a file that holds the identifier at a position
DeclAt(pos) ==
    LET top   == SourceFile(pos[1]).decls
        decls == top \o Bodies(top, 1)
        k == CHOOSE i \in DOMAIN decls :
                IF decls[i].node = "FuncDecl" THEN decls[i].line = pos[2]
                ELSE \E j \in DOMAIN decls[i].specs :
                        LET spec == decls[i].specs[j] IN
                        \/ /\ spec.spec = "ValueSpec"
                           /\ \E x \in DOMAIN spec.names : spec.names[x].line = pos[2]
                        \/ /\ spec.spec = "TypeSpec"
                           /\ spec.line = pos[2]
    IN decls[k]

NameEntries == {i \in DOMAIN stdout : stdout[i].via = "printNode"}

\* C16: the declaration walker writes a declaration only if its kind is
\* enabled: a const with const, a var with var, a function with a receiver
\* with method, one without with func, a type with type, or with interface
\* for an interface, or with struct for a struct; an import is never written.
C16_KindFilter ==
    \A i \in NameEntries :
        LET d == DeclAt(stdout[i].pos) IN
        IF d.node = "FuncDecl"
        THEN IF d.recv # NoRecv THEN flags.methodFlag ELSE flags.functionFlag
        ELSE CASE d.tok = "const" -> flags.constantFlag
               [] d.tok = "var"   -> flags.variableFlag
               [] d.tok = "type"  -> TypeEnabled(TypeSpecAt(stdout[i].pos))
               [] OTHER           -> FALSE

C16_Witness ==
    /\ pc = "exit"
    /\ On(given, KindFlags) = {"interfaceFlag", "structFlag"}
    /\ \E i \in NameEntries : TypeSpecAt(stdout[i].pos).shape = "interface"
    /\ \E i \in NameEntries : TypeSpecAt(stdout[i].pos).shape = "struct"
    /\ \A i \in NameEntries : Base(stdout[i].pos[1]) # fBTest.base

TypeEntries ==
    {i \in NameEntries : /\ DeclAt(stdout[i].pos).node = "GenDecl"
                         /\ DeclAt(stdout[i].pos).tok = "type"}

\* The node of an entry is what go/printer is handed: every doc text of
\* the entry is the text of a node of that kind at that line.
NodeIs(e, kind, line) ==
    /\ e.kind = kind
    /\ \A d \in Range(e.doc) : d.node = kind /\ d.line = line

\* C17 as stated: the node written for a matched type is the group if the
\* group has exactly one entry, and the entry if it has several.
C17_ByCount ==
    \A i \in TypeEntries :
        LET d == DeclAt(stdout[i].pos) IN
        IF Len(d.specs) = 1 THEN NodeIs(stdout[i], "GenDecl", d.line)
        ELSE NodeIs(stdout[i], "TypeSpec", stdout[i].pos[2])

\* C17: the node written for a matched type is the group as a whole if the
\* declaration has no parentheses, and the entry itself if it has, also when
\* the parenthesized group has one entry only.
C17_NodeChoice ==
    \A i \in TypeEntries :
        LET d == DeclAt(stdout[i].pos) IN
        IF d.lparen THEN NodeIs(stdout[i], "TypeSpec", stdout[i].pos[2])
        ELSE NodeIs(stdout[i], "GenDecl", d.line)

C17_Witness ==
    /\ pc = "exit" /\ flags.docFlag
    /\ \E i \in TypeEntries :
          /\ Len(DeclAt(stdout[i].pos).specs) = 1
          /\ DeclAt(stdout[i].pos).lparen
          /\ stdout[i].kind = "TypeSpec"
    /\ \E i \in TypeEntries :
          /\ Len(DeclAt(stdout[i].pos).specs) > 1
          /\ stdout[i].kind = "TypeSpec"
    /\ \E i \in TypeEntries : stdout[i].kind = "GenDecl"

\* The entries method-set resolution number k wrote for the method called m
MethodEntries(k, m) ==
    {i \in DOMAIN stdout :
        stdout[i].via = "methodSet" /\ stdout[i].call = k /\ stdout[i].name = m}

\* Each exported method of the resolved set number k is written once if a
\* file of the package declares it, in whatever file, and not at all if none does.
Located(k) ==
    \A x \in DOMAIN msLog[k].methods :
        LET m == msLog[k].methods[x]
            declared == \E d \in DeclaredMethods(msLog[k].dir, msLog[k].pkg, msLog[k].name) :
                            d.name = m
        IN Cardinality(MethodEntries(k, m)) = IF declared THEN 1 ELSE 0

\* C18: method-set resolution walks every file of the package, whichever
\* held the type; every exported method of the set that a file of the
\* package declares is written exactly once, and one that no file declares
\* is left out without error, whatever the order of the files.
C18_MethodLocation ==
    /\ \A k \in DOMAIN msLog : Located(k)
    /\ \A i \in DOMAIN stdout :
         stdout[i].via = "methodSet" => stdout[i].call \in DOMAIN msLog
    /\ (msLog # <<>> => exitCode # 2)

\* The same when the documentation is printed.
LocatedWithDoc == flags.docFlag => C18_MethodLocation

\* The type check of a package with a match goes on to the render pass and
\* reports nothing, whatever it found.
TypeCheckStep ==
    (pc = "loop1" /\ filesLeft = {} /\ found) =>
        (pc' = "loop2" /\ exitCode' = exitCode /\ stderr' = stderr /\ stdout' = stdout)

\* The files of the package the render pass has walked
Rendered == {i \in DOMAIN files : files[i].doPrint}

\* Every name match of a walked file is on standard output.
MatchesRendered ==
    \A i \in Rendered :
        LET decls == SourceFile(files[i].name).decls IN
        \A k \in DOMAIN decls :
            NameMatch(files[i], decls[k]) =>
                \E j \in NameEntries : /\ stdout[j].pos[1] = files[i].name
                                       /\ DeclAt(stdout[j].pos) = decls[k]

\* The matched types without a resolved object, and their entries
Unresolved ==
    {i \in TypeEntries : ~TypeSpecAt(stdout[i].pos).resolved}

C20_NoDuplicate ==
    \A i, j \in DOMAIN stdout :
        (i < j /\ stdout[i].doc # <<>>) => stdout[i].doc # stdout[j].doc

\* The same for the declarations written for their name, when no group of
\* constants or variables has two matching entries.
TwiceInGroup(i, j) ==
    /\ stdout[i].kind = "GenDecl" /\ stdout[j].kind = "GenDecl"
    /\ stdout[i].pos[1] = stdout[j].pos[1]
    /\ DeclAt(stdout[i].pos) = DeclAt(stdout[j].pos)

NameMatchOnce ==
    \A i, j \in NameEntries :
        (i < j /\ stdout[i].doc # <<>> /\ ~TwiceInGroup(i, j))
            => stdout[i].doc # stdout[j].doc

\* The first loop of doPackage has handled the file fn of package p of directory d
FileScanned(d, p, fn) ==
    /\ \E i \in DOMAIN parsed : parsed[i] = d.path
    /\ (d.path = curDir =>
            /\ p.name \notin pkgsLeft
            /\ (p.name = curPkg => fn \notin filesLeft))

PackageEntries(fn) ==
    {i \in DOMAIN stdout : stdout[i].via = "pkgComments" /\ stdout[i].pos[1] = fn}

\* C21 as stated: in package mode the doc comment of each file that has one
\* is printed exactly once per scan of its package.
C21_CommentOnce ==
    given.packageFlag =>
        \A d \in AllDirs : \A p \in d.pkgs : \A ast \in p.files :
            LET fn == Join(d.path, ast.base) IN
            Cardinality({i \in PackageEntries(fn) : stdout[i].doc # <<>>})
                = IF FileScanned(d, p, fn) /\ ast.doc THEN 1 ELSE 0

\* C21: in package mode what the output flags select of the URL, the
\* position and the text of the package doc comment is written exactly once
\* for each file that has such a comment, by the first loop of doPackage;
\* found is never set and the second loop is never reached.
C21_PackageDocOnce ==
    given.packageFlag =>
        /\ ~found
        /\ pc # "loop2"
        /\ \A d \in AllDirs : \A p \in d.pkgs : \A ast \in p.files :
              LET fn == Join(d.path, ast.base) IN
              /\ Cardinality(PackageEntries(fn))
                    = IF FileScanned(d, p, fn) /\ ast.doc THEN 1 ELSE 0
              /\ \A i \in PackageEntries(fn) : (stdout[i].doc # <<>>) = flags.docFlag

C21_Witness ==
    /\ given.packageFlag /\ pc = "exit" /\ exitCode = 0
    /\ pkg = <<"f", "m", "t">>
    /\ Len(stdout) = 2
    /\ stdout[1].pos[1] # stdout[2].pos[1]
    /\ \A i \in DOMAIN stdout : stdout[i].doc # <<>>

\* The entries of declarations of the files of the current package, written
\* by the declaration walker or by methodSet, that hold at least one byte
RenderedOutput(out) ==
    {i \in DOMAIN out : /\ out[i].via \in {"printNode", "methodSet"}
                        /\ out[i].pos[1] \in FileNames(curDir, curPkg)
                        /\ (out[i].url # <<>> \/ out[i].src # <<>> \/ out[i].doc # <<>>)}

\* C22: in a by-name query the render pass of a package, once entered,
\* writes at least one declaration with non-empty output before it ends, and
\* after startup at least one of doc, src and url is enabled.
C22_PassConsistency ==
    /\ [][(ByName /\ pc = "loop2" /\ pc' # "loop2") => RenderedOutput(stdout') # {}]_vars
    /\ [](pc \notin {"main", "exit"} =>
             (flags.docFlag \/ flags.srcFlag \/ flags.urlFlag))

\* What holds of the render pass: an entry of the declaration walker is
\* never empty, and a package whose files declare a name match outside of
\* function bodies has such an entry when the pass ends.
RenderNonEmpty ==
    /\ [](\A i \in NameEntries :
             stdout[i].url # <<>> \/ stdout[i].src # <<>> \/ stdout[i].doc # <<>>)
    /\ [][(ByName /\ pc = "loop2" /\ pc' # "loop2"
             /\ \E i \in DOMAIN files :
                   LET decls == SourceFile(files[i].name).decls IN
                   \E k \in DOMAIN decls : NameMatch(files[i], decls[k]))
          => RenderedOutput(stdout') # {}]_vars

=============================================================================
